---- MODULE Spec2Model ----
(***************************************************************************)
(* Vibration-sense firmware (Arduino Nano 33 BLE): the main sketch         *)
(* Arduino_BLE_wash_sense.ino and the earlier sketch (second variant).     *)
(*                                                                         *)
(* The sketch is modelled as a sequential program: pc is the place in      *)
(* setup()/loop(), one action per statement group between two blocking or  *)
(* observable points.  The sensor, the radio stack and the peer are        *)
(* inputs drawn with \E.                                                   *)
(*                                                                         *)
(* float is modelled as a binary floating-point format with MantissaBits   *)
(* significant bits whose least quantum is one unit (OneG units = 1.0 g):  *)
(* every arithmetic result is rounded to nearest, ties to even.            *)
(* unsigned long is modelled exactly, as a pair <<hi, lo>> of 16-bit       *)
(* halves (the value hi * 2^16 + lo), because 2^32 is not a TLC integer.   *)
(***************************************************************************)
EXTENDS Integers, Sequences, FiniteSets, TLC

(***************************************************************************)
(* Program constants                                                       *)
(***************************************************************************)
SAMPLING_RATE_HZ == 10
CALIBRATION_SAMPLES == 50
interval == 1000 \div SAMPLING_RATE_HZ
CAL_DELAY_MS == 20
BLINK_MS == 10
IDLE_DELAY_MS == 100
ERROR_BLINK_MS == 300
PROGRESS_EVERY == 10
\* second variant
V2_SAMPLE_DELAY_MS == 1000
V2_BLINK_MS == 100

(***************************************************************************)
(* Bounds of the model                                                     *)
(***************************************************************************)
\* significant bits of the modelled float
MantissaBits == 12
\* loop() iterations explored by Spec
MaxIter == 6
\* loop() iterations explored by SpecNum
MaxIterNum == 2
\* iterations (of loop() and of its inner while loop) explored by SpecV2
MaxIterV2 == 4
\* loop() iterations explored by SpecLive
MaxIterLive == 4
\* loop() iterations explored by SpecWrap
MaxIterWrap == 4
\* half-periods of the error blink explored
MaxErrBlinks == 2

\* 1.0 (one g) in units of the modelled float's least quantum
OneG == 2^10

\* what the sensor may deliver: a device at rest, and a second reading
S0 == <<20, -15, 1001>>
S1 == <<37, 8, 1051>>
\* a strong shock on Y: the largest value below 2^MantissaBits units
S2 == <<20, 2^MantissaBits - 1, 1001>>
TimingVals == {S0}
NumVals == {S0, S1}
\* how long one BLE.poll() call may take, in ms
PollTimes == {0, 45, 100}
\* SpecWrap: how many ms before millis() wraps to 0 the run begins, and how long
\* before that the elapsed-time check last passed
WrapLead == {5, 60, 150}
StampAges == {0, 55, 100, 250}

(***************************************************************************)
(* float arithmetic                                                        *)
(***************************************************************************)
Abs(v) == IF v < 0 THEN -v ELSE v

\* the spacing of the representable values around magnitude m
RECURSIVE Quantum(_)
Quantum(m) == IF m < 2^MantissaBits THEN 1 ELSE 2 * Quantum(m \div 2)

\* m / q rounded to the nearest integer, ties to even (m >= 0, q > 0)
RoundQ(m, q) ==
    LET k == m \div q
        r == m - k * q
    IN  IF 2 * r < q THEN k
        ELSE IF 2 * r > q THEN k + 1
        ELSE IF k % 2 = 0 THEN k ELSE k + 1

\* the representable value nearest to v
Fl(v) ==
    LET m == Abs(v)
        q == Quantum(m)
        f == RoundQ(m, q) * q
    IN  IF v < 0 THEN -f ELSE f

FAdd(a, b) == Fl(a + b)
FSub(a, b) == Fl(a - b)
FMul(a, b) == Fl(a * b)
FDiv(a, n) == IF a < 0 THEN -Fl(RoundQ(-a, n)) ELSE Fl(RoundQ(a, n))

RECURSIVE ISqrt(_)
ISqrt(n) == IF n < 2 THEN n
            ELSE LET s == 2 * ISqrt(n \div 4)
                 IN  IF (s + 1) * (s + 1) <= n THEN s + 1 ELSE s

\* sqrt of n (in squared units), rounded to nearest
FSqrt(n) == LET r == ISqrt(n) IN Fl(IF n - r * r <= r THEN r ELSE r + 1)

(***************************************************************************)
(* unsigned long arithmetic (mod 2^32) on <<hi, lo>>                       *)
(***************************************************************************)
Half == 2^16
U32(n) == <<(n \div Half) % Half, n % Half>>
\* a + d mod 2^32, for 0 <= d < 2^16
U32Add(a, d) ==
    LET lo == a[2] + d
    IN  <<(a[1] + lo \div Half) % Half, lo % Half>>
\* a - b mod 2^32
U32Sub(a, b) ==
    LET lo == a[2] - b[2]
        borrow == IF lo < 0 THEN 1 ELSE 0
    IN  <<(a[1] - b[1] - borrow + Half) % Half, (lo + Half) % Half>>
\* a >= k, for 0 <= k < 2^16
U32Geq(a, k) == a[1] > 0 \/ a[2] >= k
\* a <= b
U32Le(a, b) == a[1] < b[1] \/ (a[1] = b[1] /\ a[2] <= b[2])

(***************************************************************************)
(* State                                                                   *)
(***************************************************************************)
VARIABLES
    pc,               \* place in setup()/loop()
    ret,              \* where blinkLED() returns to
    now,              \* the millisecond clock millis() reads (unsigned long)
    ledGreen, ledRed, ledBlue,      \* TRUE: lit (the pin is LOW)
    offsetX, offsetY, offsetZ,
    sumX, sumY, sumZ, samples,      \* locals of calibrateAccelerometer()
    previousMillis, connectionActive,
    central,          \* loop()'s local: a peer is attached
    valX, valY, valZ, valMag,       \* the characteristics' values
    advertising,
    \* ---- instrumentation (never read by the program) ----
    imuOk, bleOk,     \* results of IMU.begin() / BLE.begin(): "none", "ok", "fail"
    iter,             \* loop() iterations completed
    branch,           \* the branch the current/last iteration took
    pollsIter,        \* BLE.poll() calls in the current/last iteration
    writesIter,       \* writeValue() calls in the current/last iteration
    sensorIter,       \* IMU calls in the current/last iteration
    blockedIter,      \* ms spent in delay() in the current/last iteration
    nPolls, nWrites,  \* BLE.poll() / writeValue() calls since power-on
    lastPub, prevPub, \* millis() readings of the two latest publishing attempts
    discSincePub,     \* a "disconnected" event has fired since the latest publish
    gapDisc,          \* ... and one fired between the two latest publishes
    raw,              \* the latest sample read while streaming
    nConnEv, nDiscEv, \* "connected" / "disconnected" events fired
    nRise, nFall,     \* absent->present / present->absent changes of the polled presence
    lastEv, altOk,    \* the latest event; the events have alternated so far
    eventsIter,       \* events fired in the current/last iteration
    activeBefore,     \* connectionActive when the iteration began
    prevPresent,      \* the presence polled in the previous iteration
    nCal,             \* calls of calibrateAccelerometer()
    calOffsets,       \* the offsets when calibration completed
    exactX, exactY, exactZ,         \* the exact sums of the accepted calibration samples
    calSeen,          \* the distinct calibration samples accepted
    calMissed,        \* an availability check of the calibration found no sample
    errBlinks,        \* half-periods of the error blink done
    prevBranch,       \* the branch the iteration before the current/last one took
    sinceStamp,       \* ms of real time since the elapsed-time check last passed
    gateElapsed,      \* sinceStamp when the current/last iteration made the check
    writeLog,         \* the latest batch of writeValue() calls: <<attribute, value>>
    pubCount,         \* writeValue() calls per attribute since power-on
    pulsesIter,       \* green pulses in the current/last iteration
    calAvail,         \* availability checks of the calibration that returned true
    calReads,         \* IMU.readAcceleration() calls of the calibration
    calPulses,        \* progress pulses of the calibration
    checked,          \* the calibration has made an availability check
    yielded,          \* ... and a delay() has run since the latest one
    spun              \* two successive such checks had no delay() between them

progVars == <<pc, ret, now, ledGreen, ledRed, ledBlue, offsetX, offsetY, offsetZ,
              sumX, sumY, sumZ, samples, previousMillis, connectionActive, central,
              valX, valY, valZ, valMag, advertising>>
ghostVars == <<imuOk, bleOk, iter, branch, pollsIter, writesIter, sensorIter,
               blockedIter, nPolls, nWrites, lastPub, prevPub, raw, nConnEv, nDiscEv,
               nRise, nFall, lastEv, altOk, eventsIter, activeBefore, prevPresent,
               nCal, calOffsets, exactX, exactY, exactZ, calSeen, calMissed,
               discSincePub, gapDisc, errBlinks, prevBranch, sinceStamp,
               gateElapsed, writeLog, pubCount, pulsesIter, calAvail, calReads,
               calPulses, checked, yielded, spun>>
vars == <<progVars, ghostVars>>

ledVars == <<ledGreen, ledRed, ledBlue>>
offsetVars == <<offsetX, offsetY, offsetZ>>
calLocals == <<sumX, sumY, sumZ, samples>>
charVars == <<valX, valY, valZ, valMag>>
iterGhost == <<branch, pollsIter, writesIter, sensorIter, blockedIter>>
pubGhost == <<lastPub, prevPub, raw, gapDisc>>
connGhost == <<nConnEv, nDiscEv, nRise, nFall, lastEv, altOk, eventsIter,
               activeBefore, prevPresent, discSincePub>>
calGhost == <<nCal, calOffsets, exactX, exactY, exactZ, calSeen, calMissed>>
tryGhost == <<prevBranch, sinceStamp, gateElapsed>>
writeGhost == <<writeLog, pubCount, pulsesIter>>
checkGhost == <<calAvail, calReads, calPulses, checked, yielded, spun>>

None == <<>>

\* the four notify characteristics (lines 13-16)
Attrs == {"vibrationX", "vibrationY", "vibrationZ", "vibrationMag"}

\* the globals' initializers (lines 19-24); millis() is 0 at power-on
InitAt(start) ==
    /\ pc = start /\ ret = "none"
    /\ now = U32(0)
    /\ ledGreen = FALSE /\ ledRed = FALSE /\ ledBlue = FALSE
    /\ offsetX = 0 /\ offsetY = 0 /\ offsetZ = 0
    /\ sumX = 0 /\ sumY = 0 /\ sumZ = 0 /\ samples = 0
    /\ previousMillis = U32(0) /\ connectionActive = FALSE
    /\ central = FALSE
    /\ valX = 0 /\ valY = 0 /\ valZ = 0 /\ valMag = 0
    /\ advertising = FALSE
    /\ imuOk = "none" /\ bleOk = "none"
    /\ iter = 0 /\ branch = "none"
    /\ pollsIter = 0 /\ writesIter = 0 /\ sensorIter = 0 /\ blockedIter = 0
    /\ nPolls = 0 /\ nWrites = 0
    /\ lastPub = None /\ prevPub = None /\ raw = None
    /\ nConnEv = 0 /\ nDiscEv = 0 /\ nRise = 0 /\ nFall = 0
    /\ lastEv = "none" /\ altOk = TRUE /\ eventsIter = 0
    /\ activeBefore = FALSE /\ prevPresent = FALSE
    /\ nCal = 0 /\ calOffsets = None
    /\ exactX = 0 /\ exactY = 0 /\ exactZ = 0 /\ calSeen = {}
    /\ calMissed = FALSE
    /\ discSincePub = FALSE /\ gapDisc = FALSE
    /\ errBlinks = 0
    /\ prevBranch = "none" /\ sinceStamp = 0 /\ gateElapsed = 0
    /\ writeLog = <<>> /\ pubCount = [a \in Attrs |-> 0] /\ pulsesIter = 0
    /\ calAvail = 0 /\ calReads = 0 /\ calPulses = 0
    /\ checked = FALSE /\ yielded = FALSE /\ spun = FALSE

Init == InitAt("setup")

(***************************************************************************)
(* writeValue() on the characteristics                                     *)
(***************************************************************************)
\* the value of attribute a after the writes of log, old being its value before
Written(old, log, a) ==
    LET at == {i \in 1..Len(log) : log[i][1] = a}
    IN  IF at = {} THEN old
        ELSE log[CHOOSE i \in at : \A j \in at : j <= i][2]
\* the per-attribute counts after the writes of log
Counted(count, log) ==
    [a \in Attrs |-> count[a] + Cardinality({i \in 1..Len(log) : log[i][1] = a})]

\* faulty variant: the magnitude is not written
writeValuesNoMag(v, m) ==
    << <<"vibrationX", v[1]>>, <<"vibrationY", v[2]>>, <<"vibrationZ", v[3]>> >>

\* lines 138-141 (and 74-77): X, Y, Z, then the magnitude
writeValues(v, m) ==
    << <<"vibrationX", v[1]>>, <<"vibrationY", v[2]>>, <<"vibrationZ", v[3]>>,
       <<"vibrationMag", m>> >>

\* faulty variant: no initial value for the magnitude
initialValuesNoMag == writeValuesNoMag(<<0, 0, 0>>, 0)

\* lines 73-77: the initial values
initialValues == writeValues(<<0, 0, 0>>, 0)

(***************************************************************************)
(* Main sketch: setup()                                                    *)
(***************************************************************************)
\* faulty variant: showError() returns to its caller
showErrorReturns(continuation) == continuation

\* showError() never returns: the caller's continuation is dropped
showErrorPc(continuation) == "halted"

\* lines 26-48: the LEDs are switched off, then IMU.begin()
setup_IMU ==
    /\ pc = "setup"
    /\ \E ok \in BOOLEAN :
        /\ imuOk' = (IF ok THEN "ok" ELSE "fail")
        /\ ledGreen' = FALSE /\ ledBlue' = FALSE
        /\ ledRed' = ~ok
        /\ pc' = (IF ok THEN "calibrate" ELSE showErrorPc("calibrate"))
    /\ UNCHANGED <<ret, now, offsetVars, calLocals, previousMillis, connectionActive,
                   central, charVars, advertising>>
    /\ UNCHANGED <<bleOk, iter, iterGhost, nPolls, nWrites, pubGhost, connGhost,
                   calGhost, errBlinks>>
    /\ UNCHANGED tryGhost
    /\ UNCHANGED writeGhost
    /\ UNCHANGED checkGhost

\* lines 201-207: one half-period of the error blink
showError ==
    /\ pc = "halted"
    /\ errBlinks < MaxErrBlinks
    /\ ledBlue' = ~ledBlue
    /\ now' = U32Add(now, ERROR_BLINK_MS)
    /\ errBlinks' = errBlinks + 1
    /\ sinceStamp' = sinceStamp + ERROR_BLINK_MS
    /\ UNCHANGED <<prevBranch, gateElapsed>>
    /\ UNCHANGED <<pc, ret, ledGreen, ledRed, offsetVars, calLocals, previousMillis,
                   connectionActive, central, charVars, advertising>>
    /\ UNCHANGED <<imuOk, bleOk, iter, iterGhost, nPolls, nWrites, pubGhost, connGhost,
                   calGhost>>
    /\ UNCHANGED writeGhost
    /\ UNCHANGED checkGhost

\* lines 191-192: blinkLED() switches the green LED on
blinkLED_on ==
    /\ pc = "blinkLED"
    /\ ledGreen' = TRUE
    /\ pc' = "blink_delay"
    /\ UNCHANGED <<ret, now, ledRed, ledBlue, offsetVars, calLocals, previousMillis,
                   connectionActive, central, charVars, advertising>>
    /\ IF ret = "cal_delay"
       THEN calPulses' = calPulses + 1 /\ pulsesIter' = pulsesIter
       ELSE pulsesIter' = pulsesIter + 1 /\ calPulses' = calPulses
    /\ UNCHANGED <<calAvail, calReads, checked, yielded, spun>>
    /\ UNCHANGED <<imuOk, bleOk, iter, iterGhost, nPolls, nWrites, pubGhost, connGhost,
                   calGhost, errBlinks, tryGhost, writeLog, pubCount>>

\* lines 193-195: delay(10), green LED off, return
blinkLED_off ==
    /\ pc = "blink_delay"
    /\ now' = U32Add(now, BLINK_MS)
    /\ blockedIter' = blockedIter + BLINK_MS
    /\ sinceStamp' = sinceStamp + BLINK_MS
    /\ yielded' = TRUE
    /\ UNCHANGED <<calAvail, calReads, calPulses, checked, spun>>
    /\ UNCHANGED <<prevBranch, gateElapsed>>
    /\ ledGreen' = FALSE
    /\ pc' = ret
    /\ ret' = "none"
    /\ UNCHANGED <<ledRed, ledBlue, offsetVars, calLocals, previousMillis,
                   connectionActive, central, charVars, advertising>>
    /\ UNCHANGED <<imuOk, bleOk, iter, branch, pollsIter, writesIter, sensorIter,
                   nPolls, nWrites, pubGhost, connGhost, calGhost, errBlinks>>
    /\ UNCHANGED writeGhost

\* lines 148-153
calibrateAccelerometer_begin ==
    /\ pc = "calibrate"
    /\ ledBlue' = TRUE
    /\ sumX' = 0 /\ sumY' = 0 /\ sumZ' = 0 /\ samples' = 0
    /\ pc' = "cal_while"
    /\ nCal' = nCal + 1
    /\ exactX' = 0 /\ exactY' = 0 /\ exactZ' = 0 /\ calSeen' = {}
    /\ calMissed' = FALSE
    /\ calAvail' = 0 /\ calReads' = 0 /\ calPulses' = 0
    /\ checked' = FALSE /\ yielded' = FALSE /\ spun' = FALSE
    /\ UNCHANGED <<ret, now, ledGreen, ledRed, offsetVars, previousMillis,
                   connectionActive, central, charVars, advertising>>
    /\ UNCHANGED <<imuOk, bleOk, iter, iterGhost, nPolls, nWrites, pubGhost, connGhost,
                   calOffsets, errBlinks>>
    /\ UNCHANGED tryGhost
    /\ UNCHANGED writeGhost

\* faulty variant: the loop stops one sample short
calibratingOneShort(n) == n < CALIBRATION_SAMPLES - 1

\* line 155: while (samples < CALIBRATION_SAMPLES)
calibrating(n) == n < CALIBRATION_SAMPLES

\* faulty variant: the progress pulse comes one sample late
progressDueLate(n) == n % PROGRESS_EVERY = 1

\* line 166: samples % 10 == 0
progressDue(n) == n % PROGRESS_EVERY = 0

\* lines 155-168: one pass of the while loop, up to the delay when a sample was
\* available and back to the loop test when none was
calibrateAccelerometer_sample(cvals) ==
    /\ pc = "cal_while"
    /\ calibrating(samples)
    /\ checked' = TRUE
    /\ yielded' = FALSE
    /\ spun' = (spun \/ (checked /\ ~yielded))
    /\ \E avail \in BOOLEAN :
        IF avail
        THEN \E s \in cvals :
            /\ calAvail' = calAvail + 1
            /\ calReads' = calReads + 1
            /\ sumX' = FAdd(sumX, s[1])
            /\ sumY' = FAdd(sumY, s[2])
            /\ sumZ' = FAdd(sumZ, s[3])
            /\ samples' = samples + 1
            /\ exactX' = exactX + s[1]
            /\ exactY' = exactY + s[2]
            /\ exactZ' = exactZ + s[3]
            /\ calSeen' = calSeen \cup {s}
            /\ calMissed' = calMissed
            /\ IF progressDue(samples + 1)
               THEN pc' = "blinkLED" /\ ret' = "cal_delay"
               ELSE pc' = "cal_delay" /\ ret' = ret
        ELSE /\ calMissed' = TRUE
             /\ UNCHANGED <<pc, ret, calLocals, exactX, exactY, exactZ, calSeen,
                            calAvail, calReads>>
    /\ UNCHANGED <<now, ledVars, offsetVars, previousMillis, connectionActive, central,
                   charVars, advertising>>
    /\ UNCHANGED <<imuOk, bleOk, iter, iterGhost, nPolls, nWrites, pubGhost, connGhost,
                   nCal, calOffsets, errBlinks, tryGhost, writeGhost, calPulses>>

\* line 170
calibrateAccelerometer_delay ==
    /\ pc = "cal_delay"
    /\ now' = U32Add(now, CAL_DELAY_MS)
    /\ pc' = "cal_while"
    /\ UNCHANGED <<ret, ledVars, offsetVars, calLocals, previousMillis, connectionActive,
                   central, charVars, advertising>>
    /\ sinceStamp' = sinceStamp + CAL_DELAY_MS
    /\ yielded' = TRUE
    /\ UNCHANGED <<calAvail, calReads, calPulses, checked, spun>>
    /\ UNCHANGED <<imuOk, bleOk, iter, iterGhost, nPolls, nWrites, pubGhost, connGhost,
                   calGhost, errBlinks, prevBranch, gateElapsed>>
    /\ UNCHANGED writeGhost

\* faulty variant: the Z offset is left at the mean
gravityNotAdjusted(oz) == oz

\* line 180: offsetZ = offsetZ - 1.0
gravityAdjust(oz) == FSub(oz, OneG)

\* lines 174-188: the loop has ended
calibrateAccelerometer_end ==
    /\ pc = "cal_while"
    /\ ~calibrating(samples)
    /\ offsetX' = FDiv(sumX, CALIBRATION_SAMPLES)
    /\ offsetY' = FDiv(sumY, CALIBRATION_SAMPLES)
    /\ offsetZ' = gravityAdjust(FDiv(sumZ, CALIBRATION_SAMPLES))
    /\ ledBlue' = FALSE
    /\ pc' = "ble_begin"
    /\ calOffsets' = <<offsetX', offsetY', offsetZ'>>
    /\ UNCHANGED <<ret, now, ledGreen, ledRed, calLocals, previousMillis,
                   connectionActive, central, charVars, advertising>>
    /\ UNCHANGED <<imuOk, bleOk, iter, iterGhost, nPolls, nWrites, pubGhost, connGhost,
                   nCal, exactX, exactY, exactZ, calSeen, calMissed, errBlinks>>
    /\ UNCHANGED tryGhost
    /\ UNCHANGED writeGhost
    /\ UNCHANGED checkGhost

\* lines 53-78: BLE.begin(), the service, advertising, the initial values
setup_BLE ==
    /\ pc = "ble_begin"
    /\ \E ok \in BOOLEAN :
        /\ bleOk' = (IF ok THEN "ok" ELSE "fail")
        /\ IF ok
           THEN /\ advertising' = TRUE
                /\ writeLog' = initialValues
                /\ valX' = Written(valX, writeLog', "vibrationX")
                /\ valY' = Written(valY, writeLog', "vibrationY")
                /\ valZ' = Written(valZ, writeLog', "vibrationZ")
                /\ valMag' = Written(valMag, writeLog', "vibrationMag")
                /\ pubCount' = Counted(pubCount, writeLog')
                /\ nWrites' = nWrites + Len(writeLog')
                /\ ledRed' = ledRed
                /\ pc' = "loop"
           ELSE /\ ledRed' = TRUE
                /\ pc' = showErrorPc("loop")
                /\ UNCHANGED <<advertising, charVars, nWrites, writeLog, pubCount>>
    /\ UNCHANGED <<ret, now, ledGreen, ledBlue, offsetVars, calLocals, previousMillis,
                   connectionActive, central>>
    /\ UNCHANGED <<imuOk, iter, iterGhost, nPolls, pubGhost, connGhost, calGhost,
                   errBlinks, tryGhost, pulsesIter>>
    /\ UNCHANGED checkGhost

(***************************************************************************)
(* Main sketch: loop()                                                     *)
(***************************************************************************)
\* faulty variant: the connect test is level-triggered
connectLevel(c, active) == c

\* line 84: central && !connectionActive
connectEdge(c, active) == c /\ ~active
\* faulty variant: the disconnect test reads !central && !connectionActive
disconnectInverted(c, active) == ~c /\ ~active

\* line 92: !central && connectionActive
disconnectEdge(c, active) == ~c /\ active

\* lines 82-96: BLE.central() and the two transition tests
loop_central(maxIter) ==
    /\ pc = "loop"
    /\ iter < maxIter
    /\ \E present \in BOOLEAN :
        LET conn == connectEdge(present, connectionActive)
            active1 == IF conn THEN TRUE ELSE connectionActive
            disc == disconnectEdge(present, active1)
            active2 == IF disc THEN FALSE ELSE active1
        IN  /\ central' = present
            /\ connectionActive' = active2
            /\ ledBlue' = (IF disc THEN FALSE ELSE IF conn THEN TRUE ELSE ledBlue)
            /\ nConnEv' = nConnEv + (IF conn THEN 1 ELSE 0)
            /\ nDiscEv' = nDiscEv + (IF disc THEN 1 ELSE 0)
            /\ eventsIter' = (IF conn THEN 1 ELSE 0) + (IF disc THEN 1 ELSE 0)
            /\ lastEv' = (IF disc THEN "disconnected"
                          ELSE IF conn THEN "connected" ELSE lastEv)
            /\ altOk' = /\ altOk
                        /\ conn => lastEv # "connected"
                        /\ disc => (IF conn THEN FALSE ELSE lastEv = "connected")
            /\ nRise' = nRise + (IF present /\ ~prevPresent THEN 1 ELSE 0)
            /\ nFall' = nFall + (IF ~present /\ prevPresent THEN 1 ELSE 0)
            /\ prevPresent' = present
            /\ discSincePub' = (discSincePub \/ disc)
    /\ activeBefore' = connectionActive
    /\ prevBranch' = branch
    /\ writeLog' = <<>> /\ pulsesIter' = 0
    /\ UNCHANGED pubCount
    /\ branch' = "none"
    /\ UNCHANGED <<sinceStamp, gateElapsed>>
    /\ pollsIter' = 0 /\ writesIter' = 0 /\ sensorIter' = 0 /\ blockedIter' = 0
    /\ pc' = "gate"
    /\ UNCHANGED <<ret, now, ledGreen, ledRed, offsetVars, calLocals, previousMillis,
                   charVars, advertising>>
    /\ UNCHANGED <<imuOk, bleOk, iter, nPolls, nWrites, pubGhost, calGhost, errBlinks>>
    /\ UNCHANGED checkGhost

\* faulty variant: currentMillis >= previousMillis + interval, which goes wrong
\* when the sum or the clock wraps
intervalElapsedBySum(currentMillis, previous) ==
    U32Le(U32Add(previous, interval), currentMillis)

\* faulty variant: the rate limiter compares against a tenth of the interval
intervalTooShort(currentMillis, previous) ==
    U32Geq(U32Sub(currentMillis, previous), interval \div 10)

\* line 103: currentMillis - previousMillis >= interval, in unsigned long
intervalElapsed(currentMillis, previous) ==
    U32Geq(U32Sub(currentMillis, previous), interval)

\* faulty variant: data is processed whether or not a peer is connected
streamingAlways(active) == TRUE

\* line 99: only process data if connected
streaming(active) == active

\* faulty variant: the timestamp is left alone
timestampKept(currentMillis, previous) == previous

\* line 104: previousMillis = currentMillis
timestampReset(currentMillis, previous) == currentMillis

\* lines 99-110: the rate limiter when connected, the idle delay otherwise
loop_gate ==
    /\ pc = "gate"
    /\ gateElapsed' = sinceStamp
    /\ IF streaming(connectionActive)
       THEN LET currentMillis == now
            IN  IF intervalElapsed(currentMillis, previousMillis)
                THEN /\ previousMillis' = timestampReset(currentMillis, previousMillis)
                     /\ sinceStamp' = 0
                     /\ pc' = "read"
                     /\ UNCHANGED <<now, branch, blockedIter>>
                ELSE /\ pc' = "poll"
                     /\ branch' = "early"
                     /\ UNCHANGED <<now, previousMillis, blockedIter, sinceStamp>>
       ELSE /\ now' = U32Add(now, IDLE_DELAY_MS)
            /\ sinceStamp' = sinceStamp + IDLE_DELAY_MS
            /\ blockedIter' = blockedIter + IDLE_DELAY_MS
            /\ pc' = "poll"
            /\ branch' = "idle"
            /\ UNCHANGED previousMillis
    /\ UNCHANGED <<ret, ledVars, offsetVars, calLocals, connectionActive, central,
                   charVars, advertising>>
    /\ UNCHANGED <<imuOk, bleOk, iter, pollsIter, writesIter, sensorIter, nPolls,
                   nWrites, pubGhost, connGhost, calGhost, errBlinks, prevBranch>>
    /\ UNCHANGED writeGhost
    /\ UNCHANGED checkGhost

\* faulty variant: the offsets are added
correctedAdded(s, ox, oy, oz) == <<FAdd(s[1], ox), FAdd(s[2], oy), FAdd(s[3], oz)>>

\* lines 124-126: the calibration offsets are subtracted
corrected(s, ox, oy, oz) == <<FSub(s[1], ox), FSub(s[2], oy), FSub(s[3], oz)>>

\* faulty variant: the Z component is left out of the norm
magnitudeXY(v) == FSqrt(FAdd(FMul(v[1], v[1]), FMul(v[2], v[2])))

\* line 129: sqrt(x*x + y*y + z*z)
magnitude(v) ==
    FSqrt(FAdd(FAdd(FMul(v[1], v[1]), FMul(v[2], v[2])), FMul(v[3], v[3])))

\* faulty variant: the correction is applied in place to the offsets (offsetX -= x)
readAndSend_offsetsClobbered(svals, echo) ==
    /\ pc = "read"
    /\ \E avail \in BOOLEAN :
        IF avail
        THEN \E s \in svals \cup (IF echo THEN {<<offsetX, offsetY, offsetZ>>} ELSE {}) :
            LET v == corrected(<<offsetX, offsetY, offsetZ>>, s[1], s[2], s[3])
            IN  /\ raw' = s
                /\ offsetX' = v[1] /\ offsetY' = v[2] /\ offsetZ' = v[3]
                /\ writeLog' = writeValues(v, magnitude(v))
                /\ valX' = Written(valX, writeLog', "vibrationX")
                /\ valY' = Written(valY, writeLog', "vibrationY")
                /\ valZ' = Written(valZ, writeLog', "vibrationZ")
                /\ valMag' = Written(valMag, writeLog', "vibrationMag")
                /\ pubCount' = Counted(pubCount, writeLog')
                /\ sensorIter' = sensorIter + 2
                /\ writesIter' = writesIter + Len(writeLog')
                /\ nWrites' = nWrites + Len(writeLog')
                /\ prevPub' = lastPub
                /\ lastPub' = previousMillis
                /\ gapDisc' = discSincePub
                /\ discSincePub' = FALSE
                /\ branch' = "sample"
                /\ pc' = "blinkLED" /\ ret' = "poll"
        ELSE /\ sensorIter' = sensorIter + 1
             /\ branch' = "nosample"
             /\ pc' = "poll"
             /\ UNCHANGED <<ret, charVars, writesIter, nWrites, pubGhost, discSincePub,
                            writeLog, pubCount,
                            offsetVars>>
    /\ UNCHANGED <<now, ledVars, calLocals, previousMillis, connectionActive,
                   central, advertising>>
    /\ UNCHANGED <<imuOk, bleOk, iter, pollsIter, blockedIter, nPolls, nConnEv, nDiscEv,
                   nRise, nFall, lastEv, altOk, eventsIter, activeBefore, prevPresent,
                   calGhost, errBlinks>>
    /\ UNCHANGED <<tryGhost, pulsesIter>>
    /\ UNCHANGED checkGhost

\* lines 116-146: readAndSendSensorData() up to the call of blinkLED()
readAndSendSensorData(svals, echo) ==
    /\ pc = "read"
    /\ \E avail \in BOOLEAN :
        IF avail
        THEN \E s \in svals \cup (IF echo THEN {<<offsetX, offsetY, offsetZ>>} ELSE {}) :
            LET v == corrected(s, offsetX, offsetY, offsetZ)
            IN  /\ raw' = s
                /\ writeLog' = writeValues(v, magnitude(v))
                /\ valX' = Written(valX, writeLog', "vibrationX")
                /\ valY' = Written(valY, writeLog', "vibrationY")
                /\ valZ' = Written(valZ, writeLog', "vibrationZ")
                /\ valMag' = Written(valMag, writeLog', "vibrationMag")
                /\ pubCount' = Counted(pubCount, writeLog')
                /\ sensorIter' = sensorIter + 2
                /\ writesIter' = writesIter + Len(writeLog')
                /\ nWrites' = nWrites + Len(writeLog')
                /\ prevPub' = lastPub
                /\ lastPub' = previousMillis
                /\ gapDisc' = discSincePub
                /\ discSincePub' = FALSE
                /\ branch' = "sample"
                /\ pc' = "blinkLED" /\ ret' = "poll"
        ELSE /\ sensorIter' = sensorIter + 1
             /\ branch' = "nosample"
             /\ pc' = "poll"
             /\ UNCHANGED <<ret, charVars, writesIter, nWrites, pubGhost, discSincePub,
                            writeLog, pubCount>>
    /\ UNCHANGED <<now, ledVars, offsetVars, calLocals, previousMillis, connectionActive,
                   central, advertising>>
    /\ UNCHANGED <<imuOk, bleOk, iter, pollsIter, blockedIter, nPolls, nConnEv, nDiscEv,
                   nRise, nFall, lastEv, altOk, eventsIter, activeBefore, prevPresent,
                   calGhost, errBlinks>>
    /\ UNCHANGED <<tryGhost, pulsesIter>>
    /\ UNCHANGED checkGhost

\* faulty variant: the radio is serviced only in iterations that sampled
BLE_poll_afterSampleOnly ==
    /\ pc = "poll"
    /\ \E d \in PollTimes :
        /\ now' = U32Add(now, d)
        /\ sinceStamp' = sinceStamp + d
    /\ UNCHANGED <<prevBranch, gateElapsed>>
    /\ pollsIter' = pollsIter + (IF branch = "sample" THEN 1 ELSE 0)
    /\ nPolls' = nPolls + (IF branch = "sample" THEN 1 ELSE 0)
    /\ iter' = iter + 1
    /\ pc' = "loop"
    /\ UNCHANGED <<ret, ledVars, offsetVars, calLocals, previousMillis, connectionActive,
                   central, charVars, advertising>>
    /\ UNCHANGED <<imuOk, bleOk, branch, writesIter, sensorIter, blockedIter, nWrites,
                   pubGhost, connGhost, calGhost, errBlinks>>
    /\ UNCHANGED writeGhost
    /\ UNCHANGED checkGhost

\* line 113: BLE.poll(), which ends the iteration
BLE_poll ==
    /\ pc = "poll"
    /\ \E d \in PollTimes :
        /\ now' = U32Add(now, d)
        /\ sinceStamp' = sinceStamp + d
    /\ UNCHANGED <<prevBranch, gateElapsed>>
    /\ pollsIter' = pollsIter + 1
    /\ nPolls' = nPolls + 1
    /\ iter' = iter + 1
    /\ pc' = "loop"
    /\ UNCHANGED <<ret, ledVars, offsetVars, calLocals, previousMillis, connectionActive,
                   central, charVars, advertising>>
    /\ UNCHANGED <<imuOk, bleOk, branch, writesIter, sensorIter, blockedIter, nWrites,
                   pubGhost, connGhost, calGhost, errBlinks>>
    /\ UNCHANGED writeGhost
    /\ UNCHANGED checkGhost

Next(cvals, svals, echo, maxIter) ==
    \/ setup_IMU
    \/ showError
    \/ calibrateAccelerometer_begin
    \/ calibrateAccelerometer_sample(cvals)
    \/ calibrateAccelerometer_delay
    \/ calibrateAccelerometer_end
    \/ blinkLED_on
    \/ blinkLED_off
    \/ setup_BLE
    \/ loop_central(maxIter)
    \/ loop_gate
    \/ readAndSendSensorData(svals, echo)
    \/ BLE_poll

\* the main sketch, a stationary sensor, MaxIter iterations of loop()
Spec == Init /\ [][Next(TimingVals, TimingVals, FALSE, MaxIter)]_vars

\* lines 156-172: a pass of the calibration loop that found a sample available
calibrateAccelerometer_accept(cvals) ==
    calibrateAccelerometer_sample(cvals) /\ samples' = samples + 1

\* the main sketch, MaxIterLive iterations of loop(): the processor keeps
\* executing the sketch, and the sensor has a sample available again and again
SpecLive ==
    /\ Init
    /\ [][Next(TimingVals, TimingVals, FALSE, MaxIterLive)]_vars
    /\ WF_vars(Next(TimingVals, TimingVals, FALSE, MaxIterLive))
    /\ SF_vars(calibrateAccelerometer_accept(TimingVals))

\* the main sketch, varied sensor readings, MaxIterNum iterations of loop()
SpecNum == Init /\ [][Next(NumVals, NumVals \cup {S2}, TRUE, MaxIterNum)]_vars

(***************************************************************************)
(* The main sketch after 49.7 days of uptime: millis() is about to wrap    *)
(***************************************************************************)
\* what the sensor delivers when the device lies exactly level: 1 g on Z
Level == <<0, 0, OneG>>

\* a boundary between two iterations of loop(), WrapLead ms before millis()
\* wraps.  The device was calibrated lying level (every running sum k * Level
\* is a float, so the sums are exact); a peer attached, the elapsed-time check
\* last passed StampAges ms ago, and no sampling attempt has found a sample
\* yet; the peer is still attached, or has left, in which case the idle delay
\* of the iteration that noticed has run.  iter and nPolls count from here.
InitWrap ==
    /\ pc = "loop" /\ ret = "none"
    /\ \E k \in WrapLead, g \in StampAges, c \in BOOLEAN :
        /\ ~c => g >= IDLE_DELAY_MS
        /\ now = <<Half - 1, Half - k>>
        /\ previousMillis = U32Sub(now, U32(g))
        /\ sinceStamp = g
        /\ connectionActive = c /\ central = c /\ ledBlue = c
        /\ prevPresent = c /\ activeBefore = c
        /\ nConnEv = 1 /\ nRise = 1
        /\ nDiscEv = (IF c THEN 0 ELSE 1) /\ nFall = (IF c THEN 0 ELSE 1)
        /\ lastEv = (IF c THEN "connected" ELSE "disconnected")
        /\ discSincePub = ~c
    /\ ledGreen = FALSE /\ ledRed = FALSE
    /\ sumX = Fl(CALIBRATION_SAMPLES * Level[1])
    /\ sumY = Fl(CALIBRATION_SAMPLES * Level[2])
    /\ sumZ = Fl(CALIBRATION_SAMPLES * Level[3])
    /\ samples = CALIBRATION_SAMPLES
    /\ offsetX = FDiv(sumX, CALIBRATION_SAMPLES)
    /\ offsetY = FDiv(sumY, CALIBRATION_SAMPLES)
    /\ offsetZ = gravityAdjust(FDiv(sumZ, CALIBRATION_SAMPLES))
    /\ valX = 0 /\ valY = 0 /\ valZ = 0 /\ valMag = 0
    /\ advertising = TRUE
    /\ imuOk = "ok" /\ bleOk = "ok"
    /\ iter = 0 /\ branch = "none" /\ prevBranch = "none"
    /\ pollsIter = 0 /\ writesIter = 0 /\ sensorIter = 0 /\ blockedIter = 0
    /\ nPolls = 0 /\ nWrites = 4
    /\ writeLog = <<>> /\ pubCount = [a \in Attrs |-> 1] /\ pulsesIter = 0
    /\ lastPub = None /\ prevPub = None /\ raw = None
    /\ altOk = TRUE /\ eventsIter = 0
    /\ nCal = 1 /\ calOffsets = <<offsetX, offsetY, offsetZ>>
    /\ exactX = CALIBRATION_SAMPLES * Level[1]
    /\ exactY = CALIBRATION_SAMPLES * Level[2]
    /\ exactZ = CALIBRATION_SAMPLES * Level[3]
    /\ calSeen = {Level} /\ calMissed = FALSE
    /\ calAvail = CALIBRATION_SAMPLES /\ calReads = CALIBRATION_SAMPLES
    /\ calPulses = CALIBRATION_SAMPLES \div PROGRESS_EVERY
    /\ checked = TRUE /\ yielded = TRUE /\ spun = FALSE
    /\ gapDisc = FALSE
    /\ errBlinks = 0 /\ gateElapsed = 0

\* loop() and what it calls
NextWrap(svals, maxIter) ==
    \/ loop_central(maxIter)
    \/ loop_gate
    \/ readAndSendSensorData(svals, FALSE)
    \/ blinkLED_on
    \/ blinkLED_off
    \/ BLE_poll

SpecWrap == InitWrap /\ [][NextWrap(TimingVals, MaxIterWrap)]_vars

(***************************************************************************)
(* Second variant (src/unnamed/part_000)                                   *)
(***************************************************************************)
\* lines 15-31: the LEDs are switched off, then IMU.begin();
\* lines 98-101: showError() lights the red LED and spins
v2_setup_IMU ==
    /\ pc = "v2_setup"
    /\ \E ok \in BOOLEAN :
        /\ imuOk' = (IF ok THEN "ok" ELSE "fail")
        /\ ledGreen' = FALSE
        /\ ledRed' = ~ok
        /\ pc' = (IF ok THEN "v2_ble" ELSE "v2_halted")
    /\ UNCHANGED <<ret, now, ledBlue, offsetVars, calLocals, previousMillis,
                   connectionActive, central, charVars, advertising>>
    /\ UNCHANGED <<bleOk, iter, iterGhost, nPolls, nWrites, pubGhost, connGhost,
                   calGhost, errBlinks>>
    /\ UNCHANGED tryGhost
    /\ UNCHANGED writeGhost
    /\ UNCHANGED checkGhost

\* lines 33-51: BLE.begin(), the service, advertising
v2_setup_BLE ==
    /\ pc = "v2_ble"
    /\ \E ok \in BOOLEAN :
        /\ bleOk' = (IF ok THEN "ok" ELSE "fail")
        /\ advertising' = ok
        /\ ledRed' = ~ok
        /\ pc' = (IF ok THEN "v2_loop" ELSE "v2_halted")
    /\ UNCHANGED <<ret, now, ledGreen, ledBlue, offsetVars, calLocals, previousMillis,
                   connectionActive, central, charVars>>
    /\ UNCHANGED <<imuOk, iter, iterGhost, nPolls, nWrites, pubGhost, connGhost,
                   calGhost, errBlinks>>
    /\ UNCHANGED tryGhost
    /\ UNCHANGED writeGhost
    /\ UNCHANGED checkGhost

\* lines 53-58 and 87-88: BLE.central(); without a peer loop() returns at once
v2_loop_central(maxIter) ==
    /\ pc = "v2_loop"
    /\ iter < maxIter
    /\ \E present \in BOOLEAN :
        /\ central' = present
        /\ pc' = (IF present THEN "v2_while" ELSE "v2_loop")
        /\ iter' = (IF present THEN iter ELSE iter + 1)
        /\ branch' = (IF present THEN "none" ELSE "idle")
    /\ pollsIter' = 0 /\ writesIter' = 0 /\ sensorIter' = 0 /\ blockedIter' = 0
    /\ writeLog' = <<>> /\ pulsesIter' = 0
    /\ UNCHANGED pubCount
    /\ UNCHANGED <<ret, now, ledVars, offsetVars, calLocals, previousMillis,
                   connectionActive, charVars, advertising>>
    /\ UNCHANGED <<imuOk, bleOk, nPolls, nWrites, pubGhost, connGhost, calGhost,
                   errBlinks>>
    /\ UNCHANGED tryGhost
    /\ UNCHANGED checkGhost

\* lines 60 and 84-87: the test of the inner loop, central.connected()
v2_while(maxIter) ==
    /\ pc = "v2_while"
    /\ \E conn \in BOOLEAN :
        IF conn
        THEN /\ iter < maxIter
             /\ pc' = "v2_body"
             /\ pollsIter' = 0 /\ writesIter' = 0 /\ sensorIter' = 0
             /\ blockedIter' = 0
             /\ branch' = "none"
             /\ writeLog' = <<>> /\ pulsesIter' = 0
             /\ UNCHANGED iter
        ELSE /\ pc' = "v2_loop"
             /\ iter' = iter + 1
             /\ UNCHANGED <<iterGhost, writeLog, pulsesIter>>
    /\ UNCHANGED pubCount
    /\ UNCHANGED <<ret, now, ledVars, offsetVars, calLocals, previousMillis,
                   connectionActive, central, charVars, advertising>>
    /\ UNCHANGED <<imuOk, bleOk, nPolls, nWrites, pubGhost, connGhost, calGhost,
                   errBlinks>>
    /\ UNCHANGED tryGhost
    /\ UNCHANGED checkGhost

\* lines 61-80: one sample is read, logged and written, up to blinkLED()
v2_body(svals) ==
    /\ pc = "v2_body"
    /\ \E avail \in BOOLEAN :
        IF avail
        THEN \E s \in svals :
            LET x1 == FSub(s[1], OneG)
            IN  /\ raw' = s
                /\ writeLog' = writeValues(<<x1, s[2], s[3]>>,
                                FSqrt(FAdd(FAdd(FMul(x1, x1), FMul(s[2], s[2])),
                                           FMul(s[3], s[3]))))
                /\ valX' = Written(valX, writeLog', "vibrationX")
                /\ valY' = Written(valY, writeLog', "vibrationY")
                /\ valZ' = Written(valZ, writeLog', "vibrationZ")
                /\ valMag' = Written(valMag, writeLog', "vibrationMag")
                /\ pubCount' = Counted(pubCount, writeLog')
                /\ sensorIter' = sensorIter + 2
                /\ writesIter' = writesIter + Len(writeLog')
                /\ nWrites' = nWrites + Len(writeLog')
                /\ branch' = "sample"
                /\ pc' = "v2_blinkLED"
        ELSE /\ sensorIter' = sensorIter + 1
             /\ branch' = "nosample"
             /\ pc' = "v2_delay"
             /\ UNCHANGED <<charVars, writesIter, nWrites, raw, writeLog, pubCount>>
    /\ UNCHANGED <<ret, now, ledVars, offsetVars, calLocals, previousMillis,
                   connectionActive, central, advertising>>
    /\ UNCHANGED <<imuOk, bleOk, iter, pollsIter, blockedIter, nPolls, lastPub, prevPub,
                   gapDisc, connGhost, calGhost, errBlinks>>
    /\ UNCHANGED <<tryGhost, pulsesIter>>
    /\ UNCHANGED checkGhost

\* lines 91-92
v2_blinkLED_on ==
    /\ pc = "v2_blinkLED"
    /\ ledGreen' = TRUE
    /\ pc' = "v2_blink_delay"
    /\ UNCHANGED <<ret, now, ledRed, ledBlue, offsetVars, calLocals, previousMillis,
                   connectionActive, central, charVars, advertising>>
    /\ pulsesIter' = pulsesIter + 1
    /\ UNCHANGED <<imuOk, bleOk, iter, iterGhost, nPolls, nWrites, pubGhost, connGhost,
                   calGhost, errBlinks, tryGhost, writeLog, pubCount>>
    /\ UNCHANGED checkGhost

\* lines 93-95
v2_blinkLED_off ==
    /\ pc = "v2_blink_delay"
    /\ now' = U32Add(now, V2_BLINK_MS)
    /\ blockedIter' = blockedIter + V2_BLINK_MS
    /\ ledGreen' = FALSE
    /\ pc' = "v2_delay"
    /\ UNCHANGED <<ret, ledRed, ledBlue, offsetVars, calLocals, previousMillis,
                   connectionActive, central, charVars, advertising>>
    /\ UNCHANGED <<imuOk, bleOk, iter, branch, pollsIter, writesIter, sensorIter,
                   nPolls, nWrites, pubGhost, connGhost, calGhost, errBlinks>>
    /\ UNCHANGED tryGhost
    /\ UNCHANGED writeGhost
    /\ UNCHANGED checkGhost

\* line 83: delay(1000), which ends the pass of the inner loop
v2_delay ==
    /\ pc = "v2_delay"
    /\ now' = U32Add(now, V2_SAMPLE_DELAY_MS)
    /\ blockedIter' = blockedIter + V2_SAMPLE_DELAY_MS
    /\ iter' = iter + 1
    /\ pc' = "v2_while"
    /\ UNCHANGED <<ret, ledVars, offsetVars, calLocals, previousMillis,
                   connectionActive, central, charVars, advertising>>
    /\ UNCHANGED <<imuOk, bleOk, branch, pollsIter, writesIter, sensorIter,
                   nPolls, nWrites, pubGhost, connGhost, calGhost, errBlinks>>
    /\ UNCHANGED tryGhost
    /\ UNCHANGED writeGhost
    /\ UNCHANGED checkGhost

NextV2(svals, maxIter) ==
    \/ v2_setup_IMU
    \/ v2_setup_BLE
    \/ v2_loop_central(maxIter)
    \/ v2_while(maxIter)
    \/ v2_body(svals)
    \/ v2_blinkLED_on
    \/ v2_blinkLED_off
    \/ v2_delay

\* the second variant, varied sensor readings, MaxIterV2 iterations
InitV2 == InitAt("v2_setup")
SpecV2 == InitV2 /\ [][NextV2(NumVals \cup {S2}, MaxIterV2)]_vars

(***************************************************************************)
(* Places of the main sketch                                               *)
(***************************************************************************)
\* inside an iteration of loop(), after the transition tests
InIteration ==
    \/ pc \in {"gate", "read", "poll"}
    \/ (pc \in {"blinkLED", "blink_delay"} /\ ret = "poll")
\* between two iterations of loop(), at least one done
IterationDone == pc = "loop" /\ iter > 0
\* the streaming loop has started
Streaming == pc = "loop" \/ InIteration

(***************************************************************************)
(* C1: every iteration of loop() calls BLE.poll() exactly once, as its     *)
(* last step, on each of the four branches: no poll has been made while    *)
(* the iteration is under way, exactly one when it has ended.              *)
(***************************************************************************)
C1_PollOncePerIteration ==
    /\ InIteration => pollsIter = 0
    /\ IterationDone =>
        /\ pollsIter = 1
        /\ branch \in {"idle", "early", "sample", "nosample"}
    /\ nPolls = iter

\* an iteration that was due to sample, found no sample, and polled
C1_Witness ==
    IterationDone /\ branch = "nosample" /\ writesIter = 0 /\ pollsIter = 1

(***************************************************************************)
(* C2: the millis() readings of two consecutive publishing attempts differ *)
(* by at least interval (as long as the clock has not wrapped between      *)
(* them), with or without a disconnect and reconnect in between.           *)
(***************************************************************************)
C2_PublishSpacing ==
    (prevPub # None /\ U32Le(prevPub, lastPub)) =>
        U32Geq(U32Sub(lastPub, prevPub), interval)

\* two publishes exactly one interval apart in one connection, the second after
\* an attempt that came too early
C2_Witness ==
    /\ prevPub # None /\ ~gapDisc
    /\ lastPub = U32Add(prevPub, interval)
    /\ iter >= 2

(***************************************************************************)
(* C3: in an iteration of loop() that finds the device Disconnected after  *)
(* the transition tests, no characteristic is written and no IMU call is   *)
(* made, whatever time has elapsed.                                        *)
(***************************************************************************)
C3_NoPublishWhileDisconnected ==
    ((InIteration \/ IterationDone) /\ ~connectionActive) =>
        /\ writesIter = 0
        /\ sensorIter = 0
        /\ branch \in {"none", "idle"}

\* a Disconnected iteration has ended with more than interval elapsed since the
\* latest sample, after the device had been publishing
C3_Witness ==
    /\ IterationDone /\ ~connectionActive /\ branch = "idle"
    /\ lastPub # None
    /\ intervalElapsed(now, previousMillis)

(***************************************************************************)
(* C4: connection events are edge-triggered: as many "connected" events as *)
(* absent->present changes of the polled presence, as many "disconnected"  *)
(* events as present->absent changes, strictly alternating and beginning   *)
(* with "connected"; none in an iteration whose polled presence equals     *)
(* connectionActive.                                                       *)
(***************************************************************************)
C4_EdgeTriggered ==
    /\ nConnEv = nRise
    /\ nDiscEv = nFall
    /\ altOk
    /\ nConnEv - nDiscEv = (IF lastEv = "connected" THEN 1 ELSE 0)
    /\ (central = activeBefore) => eventsIter = 0
    /\ (central # activeBefore) => eventsIter = 1

\* absent, absent, present, present, absent: one event of each kind in 5 polls
C4_Witness ==
    /\ iter >= 4 /\ pc = "gate"
    /\ nConnEv = 1 /\ nDiscEv = 1 /\ lastEv = "disconnected" /\ eventsIter = 1

(***************************************************************************)
(* C5: the calibration offsets are computed once, by a calibration that    *)
(* has completed before the first iteration of loop(), and in every state  *)
(* of the streaming loop they equal the values calibration left.           *)
(***************************************************************************)
C5_OffsetsFrozen ==
    Streaming =>
        /\ nCal = 1
        /\ samples = CALIBRATION_SAMPLES
        /\ calOffsets # None
        /\ <<offsetX, offsetY, offsetZ>> = calOffsets

\* a sample has been corrected and published, and an iteration has ended
C5_Witness ==
    /\ IterationDone /\ branch = "sample" /\ raw # None
    /\ calOffsets = <<offsetX, offsetY, offsetZ>>
    /\ calOffsets # <<0, 0, 0>>

(***************************************************************************)
(* C6: a failed IMU.begin() or BLE.begin() halts the device for good: the  *)
(* red LED is lit, control stays in showError(), and no loop() iteration,  *)
(* BLE.poll(), writeValue() or advertising ever happens; after an IMU      *)
(* failure no calibration runs, after a BLE failure none runs again.       *)
(***************************************************************************)
C6_HaltedAbsorbing ==
    /\ (imuOk = "fail" \/ bleOk = "fail") <=> pc = "halted"
    /\ pc = "halted" =>
        /\ ledRed /\ ~ledGreen
        /\ ~advertising /\ ~connectionActive
        /\ iter = 0 /\ nPolls = 0 /\ nWrites = 0
        /\ valX = 0 /\ valY = 0 /\ valZ = 0 /\ valMag = 0
        /\ imuOk = "fail" => (nCal = 0 /\ samples = 0 /\ calOffsets = None
                              /\ bleOk = "none")
        /\ bleOk = "fail" => (nCal = 1 /\ samples = CALIBRATION_SAMPLES
                              /\ <<offsetX, offsetY, offsetZ>> = calOffsets)

\* BLE.begin() failed and the error blink has run for two half-periods
C6_Witness ==
    pc = "halted" /\ bleOk = "fail" /\ errBlinks >= 2 /\ ledRed


(***************************************************************************)
(* Rounding tolerances.  u = 2^-MantissaBits is the unit roundoff of the   *)
(* modelled float and N = CALIBRATION_SAMPLES; half a unit is its least    *)
(* quantum.  All comparisons are in exact integer arithmetic.              *)
(***************************************************************************)
\* the largest magnitude of component i among the accepted calibration samples
AxisMax(i) ==
    IF calSeen = {} THEN 0
    ELSE CHOOSE m \in {Abs(s[i]) : s \in calSeen} :
            \A s \in calSeen : Abs(s[i]) <= m

\* |off - exact / N| <= (N + 2) * u * m + 1/2: off is the mean of N samples of
\* magnitude at most m up to the rounding of N additions and one division
MeanClose(off, exact, m) ==
    2^MantissaBits * Abs(CALIBRATION_SAMPLES * off - exact)
        <= CALIBRATION_SAMPLES * (CALIBRATION_SAMPLES + 2) * m
            + CALIBRATION_SAMPLES * 2^(MantissaBits - 1)

\* the same tolerance in whole units
MeanTol(m) == ((CALIBRATION_SAMPLES + 2) * m) \div 2^MantissaBits + 1

\* |v - d| <= u * |d|: v is d rounded once
RoundedOnce(v, d) == 2^MantissaBits * Abs(v - d) <= Abs(d)

\* |m - sqrt(sq)| <= 2 + 4 * u * m: m is the non-negative root of sq up to the
\* rounding of three products, two additions and the square root
MagTol(m) == 2 + (4 * m) \div 2^MantissaBits
NormClose(m, sq) ==
    /\ m >= 0
    /\ sq <= (m + MagTol(m)) * (m + MagTol(m))
    /\ m >= MagTol(m) => (m - MagTol(m)) * (m - MagTol(m)) <= sq

CalibrationDone == calOffsets # None
Published == raw # None
SumSq == valX * valX + valY * valY + valZ * valZ

(***************************************************************************)
(* C7 as stated: after calibration offsetX, offsetY and offsetZ + 1.0 are  *)
(* exactly the per-axis means of the accepted samples.                     *)
(***************************************************************************)
C7_ExactMean ==
    CalibrationDone =>
        /\ CALIBRATION_SAMPLES * offsetX = exactX
        /\ CALIBRATION_SAMPLES * offsetY = exactY
        /\ CALIBRATION_SAMPLES * (offsetZ + OneG) = exactZ

(***************************************************************************)
(* C7 as amended: after calibration (offsetX, offsetY, offsetZ) equals     *)
(* (mx, my, mz - 1.0) within floating-point rounding tolerance, whatever   *)
(* number of availability checks found no sample.                          *)
(***************************************************************************)
C7_MeanWithinRounding ==
    CalibrationDone =>
        /\ MeanClose(offsetX, exactX, AxisMax(1))
        /\ MeanClose(offsetY, exactY, AxisMax(2))
        /\ MeanClose(offsetZ + OneG, exactZ, AxisMax(3) + OneG)

\* calibration has completed over a mix of both readings, with availability
\* checks that found nothing, and the X mean is not representable
C7_Witness ==
    /\ CalibrationDone /\ calMissed
    /\ calSeen = {S0, S1}
    /\ CALIBRATION_SAMPLES * offsetX # exactX

(***************************************************************************)
(* C8 as stated: when every calibration sample equals s, a streaming       *)
(* sample equal to s is published as (0, 0, 0) with magnitude 0.           *)
(***************************************************************************)
C8_RestReadsZero ==
    (Published /\ calSeen = {raw}) =>
        valX = 0 /\ valY = 0 /\ valZ = 0 /\ valMag = 0

(***************************************************************************)
(* C8 as amended: when every calibration sample equals s, a streaming      *)
(* sample equal to s is published as (0, 0, 1.0) with magnitude 1.0,       *)
(* within floating-point rounding tolerance: gravity is kept on Z.         *)
(***************************************************************************)
C8_RestKeepsGravity ==
    (Published /\ calSeen = {raw}) =>
        LET tx == MeanTol(Abs(raw[1]))
            ty == MeanTol(Abs(raw[2]))
            tz == MeanTol(Abs(raw[3]) + OneG)
        IN  /\ Abs(valX) <= tx
            /\ Abs(valY) <= ty
            /\ Abs(valZ - OneG) <= tz
            /\ Abs(valMag - OneG) <= tx + ty + tz + 2

\* calibrated at rest on S0, and a streaming sample S0 has been published
C8_Witness ==
    /\ Published /\ calSeen = {S0} /\ raw = S0
    /\ branch = "sample" /\ writesIter = 4
    /\ valZ # 0

(***************************************************************************)
(* C9 as stated: the published X, Y, Z are exactly raw - offset and the    *)
(* published magnitude m is non-negative with m * m exactly the sum of     *)
(* their squares; a raw sample equal to the offsets gives (0, 0, 0), 0.    *)
(***************************************************************************)
C9_ExactPublish ==
    Published =>
        /\ valX = raw[1] - offsetX
        /\ valY = raw[2] - offsetY
        /\ valZ = raw[3] - offsetZ
        /\ valMag >= 0
        /\ valMag * valMag = SumSq
        /\ raw = <<offsetX, offsetY, offsetZ>> =>
            (valX = 0 /\ valY = 0 /\ valZ = 0 /\ valMag = 0)

(***************************************************************************)
(* C9 as amended: the published X, Y, Z are raw - offset rounded to float, *)
(* the published magnitude is non-negative and is the square root of the   *)
(* sum of their squares within floating-point rounding tolerance; a raw    *)
(* sample equal to the offsets gives exactly (0, 0, 0) and magnitude 0.    *)
(***************************************************************************)
C9_PublishWithinRounding ==
    Published =>
        /\ RoundedOnce(valX, raw[1] - offsetX)
        /\ RoundedOnce(valY, raw[2] - offsetY)
        /\ RoundedOnce(valZ, raw[3] - offsetZ)
        /\ NormClose(valMag, SumSq)
        /\ raw = <<offsetX, offsetY, offsetZ>> =>
            (valX = 0 /\ valY = 0 /\ valZ = 0 /\ valMag = 0)

\* a shock has been published whose corrected Y and whose norm are both inexact
C9_Witness ==
    /\ Published /\ raw = S2 /\ branch = "sample"
    /\ valY # raw[2] - offsetY
    /\ valMag * valMag # SumSq

\* an iteration of the second variant's loop() or of its inner loop has ended
V2IterationDone ==
    \/ (pc = "v2_loop" /\ iter > 0)
    \/ (pc = "v2_while" /\ branch # "none")

(***************************************************************************)
(* C10 as stated, of the second variant: every iteration, of loop() and of *)
(* its inner sampling loop, calls BLE.poll(), and blocks in delay() for no *)
(* longer than the sampling interval.                                      *)
(***************************************************************************)
C10_V2PollEveryIteration ==
    V2IterationDone =>
        /\ pollsIter >= 1
        /\ blockedIter <= V2_SAMPLE_DELAY_MS

\* the iteration just ended was Connected and followed one whose sampling
\* attempt found no fresh sample
AfterNoSample == IterationDone /\ connectionActive /\ prevBranch = "nosample"
\* the current/last iteration queried the sensor
Attempted == branch \in {"sample", "nosample"}

(***************************************************************************)
(* C11 as stated: after a sampling attempt that found no fresh sample, the *)
(* very next iteration of loop() in which the peer is still connected      *)
(* queries the sensor again.                                               *)
(***************************************************************************)
C11_RetriedNextIteration == AfterNoSample => Attempted

(***************************************************************************)
(* C11 as amended: after a sampling attempt that found no fresh sample,    *)
(* the next Connected iteration queries the sensor again exactly when at   *)
(* least interval ms have passed since the failed attempt; an earlier one  *)
(* skips the sensor and publishes nothing.                                 *)
(***************************************************************************)
C11_RetriedWhenDue ==
    AfterNoSample =>
        /\ Attempted <=> gateElapsed >= interval
        /\ ~Attempted => (branch = "early" /\ sensorIter = 0 /\ writesIter = 0)

\* a failed attempt, then an iteration 100 ms later that read a sample
C11_Witness ==
    AfterNoSample /\ branch = "sample" /\ gateElapsed = interval

\* no peer has attached yet: the device has never been Connected
NeverConnected == nConnEv = 0

(***************************************************************************)
(* C12 as stated: between power-on and the first transition to Connected   *)
(* no writeValue() call is made on any of the four attributes.             *)
(***************************************************************************)
C12_NoWriteBeforeConnected ==
    NeverConnected => \A a \in Attrs : pubCount[a] = 0

(***************************************************************************)
(* C12 as amended: between power-on and the first transition to Connected  *)
(* the only writeValue() calls are the initial ones of setup(): once the   *)
(* radio is up and advertising, each of the four attributes has been       *)
(* written exactly once, with 0.0; loop() writes nothing and a failed      *)
(* initialization leaves no attribute written.                             *)
(***************************************************************************)
C12_OnlyInitialValuesBeforeConnected ==
    NeverConnected =>
        /\ \A a \in Attrs : pubCount[a] = (IF advertising THEN 1 ELSE 0)
        /\ nWrites = (IF advertising THEN 4 ELSE 0)
        /\ valX = 0 /\ valY = 0 /\ valZ = 0 /\ valMag = 0
        /\ writesIter = 0 /\ raw = None
        /\ pc = "halted" => ~advertising

\* three Disconnected iterations have run, more than interval ms have passed,
\* and nothing but the initial values has been written
C12_Witness ==
    /\ NeverConnected /\ IterationDone /\ iter >= 3
    /\ sinceStamp > interval
    /\ \A a \in Attrs : pubCount[a] = 1

\* the states of C13: the timestamp is reset before the sensor is queried, it
\* is the millis() reading of the latest passing check, and a query comes at
\* least interval ms after the one before
C13_AtAttempt ==
    /\ pc = "read" => (previousMillis = now /\ sensorIter = 0 /\ sinceStamp = 0)
    /\ Attempted => gateElapsed >= interval
    /\ U32Sub(now, previousMillis) = U32(sinceStamp)

(***************************************************************************)
(* C13: when the elapsed-time check passes, previousMillis is set to the   *)
(* millis() reading before the sensor is queried, whether or not a sample  *)
(* turns out to be available, so two consecutive queries of the sensor     *)
(* are at least interval ms apart; previousMillis changes in no other      *)
(* step, so not in an iteration whose check fails or that is Disconnected. *)
(***************************************************************************)
C13_TimestampReset ==
    /\ []C13_AtAttempt
    /\ [][previousMillis' # previousMillis =>
            (pc = "gate" /\ pc' = "read" /\ previousMillis' = now)]_vars

\* two queries in consecutive iterations, exactly interval ms apart, neither of
\* which found a sample
C13_Witness ==
    AfterNoSample /\ branch = "nosample" /\ gateElapsed = interval
        /\ previousMillis # U32(0)

\* readAndSendSensorData() has been called in the current/last iteration and
\* has returned
CallReturned == Attempted /\ (pc = "poll" \/ IterationDone)

\* the states of C14
C14_PerCall ==
    /\ (CallReturned /\ branch = "sample") =>
        LET v == corrected(raw, offsetX, offsetY, offsetZ)
        IN  /\ writeLog = << <<"vibrationX", v[1]>>, <<"vibrationY", v[2]>>,
                             <<"vibrationZ", v[3]>>, <<"vibrationMag", magnitude(v)>> >>
            /\ writesIter = 4 /\ sensorIter = 2
            /\ pulsesIter = 1 /\ ~ledGreen
    /\ (CallReturned /\ branch = "nosample") =>
        /\ writeLog = <<>> /\ writesIter = 0
        /\ sensorIter = 1
        /\ pulsesIter = 0 /\ ~ledGreen
    /\ pc = "loop" => \A a, b \in Attrs : pubCount[a] = pubCount[b]

(***************************************************************************)
(* C14: a call of readAndSendSensorData() either writes exactly four       *)
(* values, X, Y, Z, magnitude in that order, all computed from the one     *)
(* sample read in the call, and then pulses the green LED exactly once; or *)
(* (no fresh sample) writes nothing, reads nothing and changes no LED.  At *)
(* every boundary between iterations of loop() the four attributes have    *)
(* been written equally often.                                             *)
(***************************************************************************)
C14_AllOrNothing ==
    /\ []C14_PerCall
    /\ [][(pc = "read" /\ pc' = "poll") =>
            UNCHANGED <<ledVars, charVars, pubCount, raw, nWrites>>]_vars

\* a call that found no sample, then a call that published S1
C14_Witness ==
    /\ AfterNoSample /\ branch = "sample" /\ raw = S1
    /\ pubCount["vibrationMag"] = 2 /\ pulsesIter = 1

\* inside calibrateAccelerometer(), after its first statements
InCalibration ==
    \/ pc \in {"cal_while", "cal_delay"}
    \/ (pc \in {"blinkLED", "blink_delay"} /\ ret = "cal_delay")
\* calibrateAccelerometer() has just returned to setup()
CalibrationReturned == pc = "ble_begin"

(***************************************************************************)
(* C15: calibrateAccelerometer() reads the sensor exactly                  *)
(* CALIBRATION_SAMPLES times, each read following an availability check    *)
(* that returned true, and pulses the green LED exactly after the 10th,    *)
(* 20th, 30th, 40th and 50th accepted sample, whatever checks found no     *)
(* sample; the blue LED is lit throughout the sampling and is off when     *)
(* calibration returns.                                                    *)
(***************************************************************************)
C15_CalibrationCounts ==
    /\ (InCalibration \/ CalibrationDone) =>
        /\ calReads = samples /\ calReads = calAvail
        /\ calReads <= CALIBRATION_SAMPLES
    /\ pc \in {"cal_while", "cal_delay"} => calPulses = samples \div 10
    /\ (pc = "blinkLED" /\ ret = "cal_delay") =>
        (samples % 10 = 0 /\ samples > 0 /\ calPulses = samples \div 10 - 1)
    /\ (pc = "blink_delay" /\ ret = "cal_delay") =>
        (samples % 10 = 0 /\ calPulses = samples \div 10 /\ ledGreen)
    /\ InCalibration => (ledBlue /\ ~CalibrationDone)
    /\ CalibrationDone => (calReads = 50 /\ calPulses = 5)
    /\ CalibrationReturned => (CalibrationDone /\ ~ledBlue /\ ~ledGreen)

\* calibration has returned after 50 reads and 5 pulses, some of its
\* availability checks having found no sample
C15_Witness ==
    CalibrationReturned /\ calMissed /\ calReads = 50 /\ calPulses = 5

\* setup() has not got past calibrateAccelerometer(): no radio, no loop()
BeforeRadio ==
    /\ pc = "calibrate" \/ InCalibration
    /\ ~CalibrationDone
    /\ bleOk = "none" /\ ~advertising
    /\ iter = 0 /\ nPolls = 0 /\ nWrites = 0

(***************************************************************************)
(* C16: calibration completes exactly when the sensor has reported         *)
(* availability CALIBRATION_SAMPLES times.  As long as it has reported     *)
(* fewer, the device stays in calibration: no radio initialization, no     *)
(* advertising, no iteration of loop().  When the sensor is available      *)
(* again and again, calibration eventually returns and, unless BLE.begin() *)
(* fails, the streaming loop is eventually entered.                        *)
(***************************************************************************)
C16_CalibrationTermination ==
    /\ []((imuOk = "ok" /\ calAvail < CALIBRATION_SAMPLES) => BeforeRadio)
    /\ [](CalibrationDone => calAvail = CALIBRATION_SAMPLES)
    /\ (pc = "calibrate") ~> CalibrationReturned
    /\ (pc = "calibrate") ~> (Streaming \/ bleOk = "fail")

\* the streaming loop has been entered after a calibration in which some
\* availability checks found no sample
C16_Witness ==
    Streaming /\ iter >= 1 /\ calMissed /\ calAvail = CALIBRATION_SAMPLES

(***************************************************************************)
(* C17 as stated: between any two successive calls of                      *)
(* IMU.accelerationAvailable() in calibrateAccelerometer() a delay()       *)
(* runs, also when the earlier call reported no sample.                    *)
(***************************************************************************)
C17_NoBusySpin == ~spun

(***************************************************************************)
(* C18: in the streaming loop no iteration stays in delay() for more than  *)
(* one sampling interval: a Connected iteration for the 10 ms success      *)
(* pulse when it published and for 0 ms when it did not, a Disconnected    *)
(* iteration for exactly the 100 ms idle delay; so between two consecutive *)
(* BLE.poll() calls at most 100 ms are spent in delay().                   *)
(***************************************************************************)
C18_BoundedSuspension ==
    /\ (InIteration \/ IterationDone) => blockedIter <= interval
    /\ (IterationDone /\ connectionActive) =>
        blockedIter = (IF writesIter > 0 THEN 10 ELSE 0)
    /\ (IterationDone /\ ~connectionActive) => blockedIter = 100
    /\ (IterationDone /\ blockedIter = 10) => (branch = "sample" /\ pulsesIter = 1)

\* the first publishing iteration of a connection, then a Connected iteration
\* that came too early, published nothing and blocked for 0 ms
C18_Witness ==
    /\ IterationDone /\ iter >= 3 /\ connectionActive
    /\ prevBranch = "sample" /\ branch = "early" /\ blockedIter = 0
    /\ nConnEv = 1 /\ nRise = 1 /\ prevPub = None /\ lastPub # None

\* between two iterations of loop(), or before the first
IterationBoundary == pc = "loop"

(***************************************************************************)
(* C19: before the first iteration of loop() and after every iteration the *)
(* blue LED is lit exactly when connectionActive is true, and after an     *)
(* iteration connectionActive equals the peer presence that iteration      *)
(* polled; calibration leaves the blue LED off, matching the initial       *)
(* connectionActive = false; the green LED is off at every boundary.       *)
(***************************************************************************)
C19_IndicatorsConsistent ==
    /\ IterationBoundary =>
        /\ ledBlue <=> connectionActive
        /\ ~ledGreen
        /\ iter > 0 => (connectionActive <=> central)
        /\ iter = 0 => (~connectionActive /\ ~ledBlue)
    /\ CalibrationReturned => (~ledBlue /\ ~connectionActive)

\* a peer attached, samples were published, the peer left: the blue LED is off
\* again after the iteration that noticed
C19_Witness ==
    /\ IterationBoundary /\ iter >= 3
    /\ nConnEv = 1 /\ nDiscEv = 1 /\ eventsIter = 1
    /\ lastPub # None /\ ~ledBlue /\ ~central

\* the current/last iteration was Connected and has made the elapsed-time check
CheckMade == connectionActive /\ (pc \in {"read", "poll"} \/ IterationDone
                                  \/ (pc \in {"blinkLED", "blink_delay"} /\ ret = "poll"))

(***************************************************************************)
(* C20: the rate limiter is right across the wraparound of millis(): the   *)
(* unsigned difference currentMillis - previousMillis is the real time     *)
(* since previousMillis was set, modulo 2^32, so the check passes exactly  *)
(* when at least interval ms of real time have gone by since then; when    *)
(* millis() wraps the sampling neither fires early nor stalls.             *)
(***************************************************************************)
C20_WrapSafe ==
    /\ U32Sub(now, previousMillis) = U32(sinceStamp)
    /\ CheckMade => ((pc = "read" \/ Attempted) <=> gateElapsed >= interval)
    /\ CheckMade => (branch = "early" <=> gateElapsed < interval)

\* two samples published exactly interval ms apart, the first before millis()
\* wrapped and the second after, with a check in between that came too early
C20_Witness ==
    /\ prevPub # None /\ prevPub[1] = Half - 1 /\ lastPub[1] = 0
    /\ U32Sub(lastPub, prevPub) = U32(interval)
    /\ prevBranch = "early" /\ branch = "sample" /\ IterationDone

====
